---------------------------- MODULE Spec2Model ----------------------------
(***************************************************************************)
(* The PEP 3118 buffer export of numpy/core/src/multiarray/buffer.c:       *)
(* the format-string translator (_append_char, _append_str,                *)
(* _buffer_format_string), the export entry point array_getbuffer with its *)
(* per-array shape/strides cache (_buffer_data), and the cache release     *)
(* _array_dealloc_buffer_info.                                             *)
(*                                                                         *)
(* Conventions.  A C string is the sequence of its characters; a NULL      *)
(* char* is the empty sequence (a stored format string always ends with    *)
(* the terminator "NUL" that line 316 appends, so it is never empty).  A    *)
(* pointer into the heap is a record [blk, off]: the block and the element *)
(* offset inside it; NULL is block 0.  Every malloc returns a fresh block. *)
(* The growth of _tmp_string (malloc(16), realloc) is assumed to succeed:  *)
(* only the allocations of the shape/strides cache may fail here.          *)
(***************************************************************************)
EXTENDS Integers, Sequences, FiniteSets, TLC

VARIABLES
    arr,            \* the PyArrayObject: nd, dimensions, strides, flags
    descr,          \* PyArray_DESCR(self), immutable once published
    buffer_format,  \* descr->buffer_format, the descriptor's cache slot
    buffer_info,    \* self->buffer_info: pointer to the _buffer_data
    heap,           \* the malloc'ed blocks, in allocation order
    views,          \* the Py_buffer records exported and not yet released
    refcnt,         \* references the exported views hold on self
    status,         \* "alive" | "destroyed" | "fatal" | "crashed"
    op              \* the last operation, its inputs and its return value

vars == <<arr, descr, buffer_format, buffer_info, heap, views, refcnt, status, op>>

\* ------------------------------------------------------------------ bounds

MaxNd == 1
MaxViews == 2
MaxAllocs == 3

\* ------------------------------------------------- format string translator

NullStr == <<>>
NUL == "NUL"

\* The(S): the element of a singleton.  An intermediate value v of a
\* computation is bound once, as in The({f(x) : x \in {v}}).
The(S) == CHOOSE x \in S : TRUE

\* _append_char: s->s[s->pos] = c; ++s->pos; return 0 (allocation succeeds).
_append_char(s, c) == Append(s, c)

\* _append_str: _append_char on every character of c, in order.  The function
\* has no return statement after the loop: the value a caller reads is
\* indeterminate, and is an input (ub) of the callers that test it.
_append_str(s, c) == s \o c

\* The value `if (_append_str(...)) return -1;` reads: 0 or anything else.
AppendStrGarbage == {0, 1}

DigitChar == <<"0", "1", "2", "3", "4", "5", "6", "7", "8", "9">>

\* PyOS_snprintf(buf, sizeof(buf), "%d", n) for n >= 0.
RECURSIVE Decimal(_)
Decimal(n) ==
    IF n < 10 THEN <<DigitChar[n + 1]>>
    ELSE Decimal(n \div 10) \o <<DigitChar[(n % 10) + 1]>>

PyDataType_HASFIELDS(d) == d.names # <<>>

NoError == "none"
ErrSubarray == "ValueError: data types with sub-arrays cannot be exported as buffers"
ErrFieldName == "ValueError: ':' is not an allowed character in buffer field names"
ErrUnknownDtype == "ValueError: unknown dtype code"

\* The padding loop, while (*offset < new_offset) { 'x'; ++*offset; }, then
\* *offset += child->elsize (lines 166-170).
InsertPadding(st, new_offset, elsize) ==
    IF st.offset < new_offset
    THEN [st EXCEPT !.s = st.s \o [i \in 1..(new_offset - st.offset) |-> "x"],
                    !.offset = new_offset + elsize]
    ELSE [st EXCEPT !.offset = st.offset + elsize]

\* The field name (lines 186-199): ':', then each character of the name up
\* to a ':' in it, which makes the function return -1, then ':'.
AppendName(st, p) ==
    LET colons == {i \in 1..Len(p) : p[i] = ":"}
    IN  IF colons = {}
        THEN [st EXCEPT !.s = (st.s \o <<":">>) \o (p \o <<":">>)]
        ELSE [st EXCEPT !.s = (st.s \o <<":">>)
                                \o SubSeq(p, 1, (CHOOSE i \in colons :
                                                   \A j \in colons : i <= j) - 1),
                        !.rc = -1, !.err = ErrFieldName]

\* The switch on descr->type_num (lines 212-248).  ub is the indeterminate
\* value the tests of _append_str read.
TypeChars(d) ==
    CASE d.type_num = "NPY_BYTE" -> <<"b">>
      [] d.type_num = "NPY_UBYTE" -> <<"B">>
      [] d.type_num = "NPY_SHORT" -> <<"h">>
      [] d.type_num = "NPY_USHORT" -> <<"H">>
      [] d.type_num = "NPY_INT" -> <<"i">>
      [] d.type_num = "NPY_UINT" -> <<"I">>
      [] d.type_num = "NPY_LONG" -> <<"l">>
      [] d.type_num = "NPY_ULONG" -> <<"L">>
      [] d.type_num = "NPY_LONGLONG" -> <<"q">>
      [] d.type_num = "NPY_ULONGLONG" -> <<"Q">>
      [] d.type_num = "NPY_FLOAT" -> <<"f">>
      [] d.type_num = "NPY_DOUBLE" -> <<"d">>
      [] d.type_num = "NPY_LONGDOUBLE" -> <<"g">>
      [] d.type_num = "NPY_CFLOAT" -> <<"Z", "f">>
      [] d.type_num = "NPY_CDOUBLE" -> <<"Z", "d">>
      [] d.type_num = "NPY_CLONGDOUBLE" -> <<"Z", "g">>
      [] d.type_num = "NPY_STRING" -> Decimal(d.elsize) \o <<"s">>
      [] d.type_num = "NPY_UNICODE" -> Decimal(d.elsize \div 4) \o <<"w">>
      [] d.type_num = "NPY_OBJECT" -> <<"O">>
      [] OTHER -> <<>>

\* The cases that append with _append_str and test its value.
UsesAppendStr(d) ==
    d.type_num \in {"NPY_CFLOAT", "NPY_CDOUBLE", "NPY_CLONGDOUBLE", "NPY_STRING",
                    "NPY_UNICODE"}

ScalarCode(d, s, ub) ==
    IF TypeChars(d) = <<>>
    THEN [s |-> s, rc |-> -1, err |-> ErrUnknownDtype]
    ELSE IF UsesAppendStr(d)
    THEN [s |-> _append_str(s, TypeChars(d)), rc |-> IF ub # 0 THEN -1 ELSE 0,
          err |-> NoError]
    ELSE [s |-> _append_char(s, TypeChars(d)[1]), rc |-> 0, err |-> NoError]

\* _buffer_format_string(descr, str, offset): str and *offset are updated in
\* place, so the result carries them with the return value rc and the
\* exception set (err).  FieldLoop is the for loop over descr->names from
\* index k on, FieldStep one turn of it.
RECURSIVE _buffer_format_string(_, _, _, _)
RECURSIVE FieldLoop(_, _, _, _)

\* The value of the recursive call for the child is dropped (line 173): the
\* loop goes on with what the call appended, with the cursor it left and with
\* the exception it set, if any.
ChildResult(st, c) ==
    [st EXCEPT !.s = c.s, !.offset = c.offset,
               !.err = IF c.err # NoError THEN c.err ELSE st.err]

FieldStep(d, k, st, ub) ==
    The({AppendName(after, d.names[k]) :
           after \in {ChildResult(padded,
                                  _buffer_format_string(d.fields[k].descr, padded.s,
                                                        padded.offset, ub)) :
                        padded \in {InsertPadding(st, d.fields[k].offset,
                                                  d.fields[k].descr.elsize)}}})

FieldLoop(d, k, st, ub) ==
    IF k > Len(d.names) \/ st.rc # 0 THEN st
    ELSE The({FieldLoop(d, k + 1, x, ub) : x \in {FieldStep(d, k, st, ub)}})

_buffer_format_string(d, str, offset, ub) ==
    IF d.subarray
    THEN [s |-> str, offset |-> offset, rc |-> -1, err |-> ErrSubarray]
    ELSE IF PyDataType_HASFIELDS(d)
    THEN The({IF done.rc # 0 THEN done
              ELSE [done EXCEPT !.s = _append_char(done.s, "}")] :
                done \in {FieldLoop(d, 1, [s |-> _append_str(str, <<"T", "{">>),
                                           offset |-> offset, rc |-> 0,
                                           err |-> NoError], ub)}})
    ELSE The({[s |-> r.s, offset |-> offset, rc |-> r.rc, err |-> r.err] :
                r \in {ScalarCode(d, IF d.byteorder \in {"<", ">", "="}
                                     THEN _append_char(str, d.byteorder)
                                     ELSE str, ub)}})

\* ---------------------------------------------------------- descriptors

Scalar(t, bo, n) ==
    [type_num |-> t, byteorder |-> bo, elsize |-> n, subarray |-> FALSE,
     names |-> <<>>, fields |-> <<>>]

\* A descriptor with descr->subarray set: n elements of base b.
SubArray(b, n) == [b EXCEPT !.subarray = TRUE, !.elsize = n * b.elsize]

Field(d, o) == [descr |-> d, offset |-> o]

Record(names, fields, n) ==
    [type_num |-> "NPY_VOID", byteorder |-> "|", elsize |-> n,
     subarray |-> FALSE, names |-> names, fields |-> fields]

\* ------------------------------------------------------------ the array

ArrayFlags == {"NPY_C_CONTIGUOUS", "NPY_F_CONTIGUOUS", "NPY_WRITEABLE"}

PyArray_CHKFLAGS(self, f) == f \in self.flags
PyArray_ISWRITEABLE(self) == PyArray_CHKFLAGS(self, "NPY_WRITEABLE")
PyArray_NDIM(self) == self.nd
PyArray_DIMS(self) == self.dimensions
PyArray_STRIDES(self) == self.strides
PyArray_ISONESEGMENT(self) ==
    \/ PyArray_NDIM(self) = 0
    \/ PyArray_CHKFLAGS(self, "NPY_C_CONTIGUOUS")
    \/ PyArray_CHKFLAGS(self, "NPY_F_CONTIGUOUS")

\* Row-major contiguity: the last dimension steps by one item, each earlier
\* one by the extent of the dimensions after it.
RECURSIVE IsRowMajor(_, _, _, _)
IsRowMajor(dims, strides, k, sd) ==
    IF k = 0 THEN TRUE
    ELSE strides[k] = sd /\ IsRowMajor(dims, strides, k - 1, sd * dims[k])

\* Column-major contiguity: the first dimension steps by one item.
RECURSIVE IsColumnMajor(_, _, _, _)
IsColumnMajor(dims, strides, k, sd) ==
    IF k > Len(dims) THEN TRUE
    ELSE strides[k] = sd /\ IsColumnMajor(dims, strides, k + 1, sd * dims[k])

\* The contiguity flags the array keeps up to date with its layout.
UpdateFlags(dims, strides, itemsize, writeable) ==
    (IF IsRowMajor(dims, strides, Len(dims), itemsize)
     THEN {"NPY_C_CONTIGUOUS"} ELSE {})
    \cup (IF IsColumnMajor(dims, strides, 1, itemsize)
          THEN {"NPY_F_CONTIGUOUS"} ELSE {})
    \cup (IF writeable THEN {"NPY_WRITEABLE"} ELSE {})

DimVals == {2, 3}
StrideVals == {8, 16}

Layouts ==
    UNION {[dimensions : [1..n -> DimVals], strides : [1..n -> StrideVals]]
           : n \in 0..MaxNd}

Layout(self) == [dimensions |-> self.dimensions, strides |-> self.strides]

MakeArray(l, itemsize, writeable) ==
    [nd |-> Len(l.dimensions), dimensions |-> l.dimensions, strides |-> l.strides,
     flags |-> UpdateFlags(l.dimensions, l.strides, itemsize, writeable)]

\* ------------------------------------------------------------- the heap

NULL == [blk |-> 0, off |-> 0]

\* malloc: a fresh block holding data; its address is Len(h) + 1.
malloc(h, data) == Append(h, [live |-> TRUE, data |-> data])
NewPtr(h) == [blk |-> Len(h) + 1, off |-> 0]

free(h, p) == [h EXCEPT ![p.blk] = [live |-> FALSE, data |-> <<>>]]

\* typedef struct { char *format; int nd; Py_ssize_t *strides, *shape; }
_buffer_data(format, nd, strides, shape) ==
    [format |-> format, nd |-> nd, strides |-> strides, shape |-> shape]

\* p[k] for a Py_ssize_t pointer p and a 0-based index k.
Deref(h, p, k) == h[p.blk].data[p.off + k + 1]

\* ------------------------------------------------------- request flags

\* The flag words of Python's buffer interface, as sets of bits.
PyBUF_SIMPLE == {}
PyBUF_WRITABLE == {"WRITABLE"}
PyBUF_FORMAT == {"FORMAT"}
PyBUF_ND == {"ND"}
PyBUF_STRIDES == {"STRIDES"} \cup PyBUF_ND
PyBUF_C_CONTIGUOUS == {"C_CONTIGUOUS"} \cup PyBUF_STRIDES
PyBUF_F_CONTIGUOUS == {"F_CONTIGUOUS"} \cup PyBUF_STRIDES
PyBUF_ANY_CONTIGUOUS == {"ANY_CONTIGUOUS"} \cup PyBUF_STRIDES
PyBUF_STRIDED == PyBUF_STRIDES \cup PyBUF_WRITABLE
PyBUF_STRIDED_RO == PyBUF_STRIDES
PyBUF_RECORDS == PyBUF_STRIDES \cup PyBUF_WRITABLE \cup PyBUF_FORMAT

\* (flags & F) == F
HasFlags(flags, F) == F \subseteq flags

\* The requests a consumer makes.
Requests ==
    {PyBUF_SIMPLE, PyBUF_WRITABLE, PyBUF_FORMAT, PyBUF_STRIDED, PyBUF_STRIDED_RO,
     PyBUF_RECORDS, PyBUF_C_CONTIGUOUS, PyBUF_F_CONTIGUOUS, PyBUF_ANY_CONTIGUOUS}

ErrNotC == "ValueError: ndarray is not C contiguous"
ErrNotF == "ValueError: ndarray is not Fortran contiguous"
ErrNotContiguous == "ValueError: ndarray is not contiguous"
ErrNotSingleSegment == "ValueError: ndarray is not single-segment"

\* --------------------------------------------------------- array_getbuffer

\* Lines 329-340: whether the cached snapshot differs from the array.
RECURSIVE LayoutDiffers(_, _, _, _)
LayoutDiffers(h, cache, self, k) ==
    IF k >= PyArray_NDIM(self) THEN FALSE
    ELSE \/ Deref(h, cache.shape, k) # PyArray_DIMS(self)[k + 1]
         \/ Deref(h, cache.strides, k) # PyArray_STRIDES(self)[k + 1]
         \/ LayoutDiffers(h, cache, self, k + 1)

shape_changed(h, cache, self) ==
    IF cache.nd # PyArray_NDIM(self) THEN TRUE
    ELSE LayoutDiffers(h, cache, self, 0)

\* Lines 350-353: the block's contents, shape[0..nd) then strides[0..nd).
SnapshotData(self) == PyArray_DIMS(self) \o PyArray_STRIDES(self)

\* Line 325: the test that selects the shape/strides branch.
WantsStrides(flags) == HasFlags(flags, PyBUF_STRIDED)

\* Py_INCREF left out of the success path.
Py_INCREF_missing(n) == n

Py_INCREF(n) == n + 1

\* The Py_buffer record as lines 282-283 leave it.
EmptyView ==
    [format |-> NullStr, ndim |-> 0, shape |-> NULL, strides |-> NULL,
     readonly |-> FALSE]

\* The running state of one call: the heap, self->buffer_info, the
\* descriptor's cache slot and the view record, with how the call ends:
\* end = "run" (still running), "return" (ret, err) or "fault" (a store through
\* a null pointer: the process is killed).
Call(h, bi, bf) ==
    [heap |-> h, buffer_info |-> bi, buffer_format |-> bf, view |-> EmptyView,
     ret |-> 0, err |-> NoError, end |-> "run", oom |-> FALSE]

Fail(m, e) == [m EXCEPT !.ret = -1, !.err = e, !.end = "return"]
Fault(m) == [m EXCEPT !.end = "fault", !.oom = TRUE]

\* Lines 270-283: the cache record is created on the first call.  malloc's
\* result is not tested: when it is NULL, cache->nd = 0 stores through it.
GetCache(m, oomCache) ==
    IF m.buffer_info = NULL
    THEN IF oomCache THEN Fault(m)
         ELSE [m EXCEPT !.heap = malloc(m.heap, _buffer_data(NullStr, 0, NULL, NULL)),
                        !.buffer_info = NewPtr(m.heap)]
    ELSE m

\* Lines 285-299.
CheckContiguity(m, self, flags) ==
    IF HasFlags(flags, PyBUF_C_CONTIGUOUS) /\ ~PyArray_CHKFLAGS(self, "NPY_C_CONTIGUOUS")
    THEN Fail(m, ErrNotC)
    ELSE IF HasFlags(flags, PyBUF_F_CONTIGUOUS)
            /\ ~PyArray_CHKFLAGS(self, "NPY_F_CONTIGUOUS")
    THEN Fail(m, ErrNotF)
    ELSE IF HasFlags(flags, PyBUF_ANY_CONTIGUOUS) /\ ~PyArray_ISONESEGMENT(self)
    THEN Fail(m, ErrNotContiguous)
    ELSE m

\* Lines 301-323.
FillView(m, self, d, flags, ub) ==
    IF HasFlags(flags, PyBUF_FORMAT)
    THEN IF m.buffer_format = NullStr
         THEN The({IF r.rc # 0
                   THEN Fail([m EXCEPT !.view.readonly = ~PyArray_ISWRITEABLE(self)],
                             r.err)
                   ELSE [m EXCEPT !.view.readonly = ~PyArray_ISWRITEABLE(self),
                                  !.buffer_format = _append_char(r.s, NUL),
                                  !.view.format = _append_char(r.s, NUL),
                                  !.err = r.err] :
                     r \in {_buffer_format_string(d, <<>>, 0, ub)}})
         ELSE [m EXCEPT !.view.readonly = ~PyArray_ISWRITEABLE(self),
                        !.view.format = m.buffer_format]
    ELSE [m EXCEPT !.view.readonly = ~PyArray_ISWRITEABLE(self)]

\* Lines 342-354: the snapshot is replaced.  The old block is freed first and
\* malloc's result is not tested: when it is NULL the copy loop stores through
\* it, unless the array has no dimension.
ReplaceSnapshot(m, self, oomShape) ==
    LET cache == m.heap[m.buffer_info.blk].data
        h1 == IF cache.shape # NULL THEN free(m.heap, cache.shape) ELSE m.heap
        nd == PyArray_NDIM(self)
        shape == IF oomShape THEN NULL ELSE NewPtr(m.heap)
        strides == IF oomShape THEN NULL ELSE [shape EXCEPT !.off = nd]
        h2 == [h1 EXCEPT ![m.buffer_info.blk].data =
                             _buffer_data(cache.format, nd, strides, shape)]
        h3 == IF oomShape THEN h2 ELSE malloc(h2, SnapshotData(self))
    IN  IF oomShape /\ nd > 0
        THEN Fault([m EXCEPT !.heap = h3])
        ELSE [m EXCEPT !.heap = h3, !.oom = oomShape]

\* Lines 325-368.
FillShape(m, self, flags, oomShape) ==
    IF WantsStrides(flags)
    THEN The({IF m1.end = "fault" THEN m1
              ELSE [m1 EXCEPT !.view.ndim = PyArray_NDIM(self),
                              !.view.shape = m1.heap[m1.buffer_info.blk].data.shape,
                              !.view.strides = m1.heap[m1.buffer_info.blk].data.strides] :
                m1 \in {IF \/ m.heap[m.buffer_info.blk].data.strides = NULL
                           \/ shape_changed(m.heap, m.heap[m.buffer_info.blk].data, self)
                        THEN ReplaceSnapshot(m, self, oomShape)
                        ELSE m}})
    ELSE IF PyArray_ISONESEGMENT(self)
    THEN [m EXCEPT !.view.ndim = 0, !.view.shape = NULL, !.view.strides = NULL]
    ELSE Fail(m, ErrNotSingleSegment)

\* The whole call for a non-null view record: the stages in order, each
\* skipped once the call has ended.
GetBufferCall(self, d, h, bi, bf, flags, ub, oomCache, oomShape) ==
    The({IF m4.end = "run" THEN [m4 EXCEPT !.end = "return"] ELSE m4 :
      m4 \in {IF m3.end = "run" THEN FillShape(m3, self, flags, oomShape) ELSE m3 :
        m3 \in {IF m2.end = "run" THEN FillView(m2, self, d, flags, ub) ELSE m2 :
          m2 \in {IF m1.end = "run" THEN CheckContiguity(m1, self, flags) ELSE m1 :
            m1 \in {GetCache(Call(h, bi, bf), oomCache)}}}}})

\* -------------------------------------------------------------- actions

Op(name, flags, view_null, returned, ret, err, oom) ==
    [name |-> name, flags |-> flags, view_null |-> view_null,
     returned |-> returned, ret |-> ret, err |-> err, oom |-> oom]

NoOp(name) == Op(name, {}, FALSE, TRUE, 0, NoError, FALSE)

\* array_getbuffer(obj, view, flags) called with view == NULL (lines 266-268).
array_getbuffer_null(flags) ==
    /\ status = "alive"
    /\ op' = Op("array_getbuffer", flags, TRUE, TRUE, -1, NoError, FALSE)
    /\ UNCHANGED <<arr, descr, buffer_format, buffer_info, heap, views, refcnt,
                   status>>

\* The inputs of a call that the call reads: the indeterminate value of
\* _append_str when a format is computed, the failure of the first malloc
\* when there is no cache record yet, of the second when strides are asked.
ReadsInputs(flags, ub, oomCache, oomShape) ==
    /\ ub # 0 => HasFlags(flags, PyBUF_FORMAT) /\ buffer_format = NullStr
    /\ oomCache => buffer_info = NULL
    /\ oomShape => HasFlags(flags, PyBUF_STRIDES) /\ ~oomCache

\* array_getbuffer(obj, view, flags) with a view record.  ub, oomCache,
\* oomShape: the indeterminate value of _append_str and whether the two
\* allocations of the cache fail.
array_getbuffer(flags, ub, oomCache, oomShape) ==
    /\ status = "alive"
    /\ Len(views) < MaxViews
    /\ ReadsInputs(flags, ub, oomCache, oomShape)
    /\ \E m \in {GetBufferCall(arr, descr, heap, buffer_info, buffer_format,
                                flags, ub, oomCache, oomShape)} :
           /\ Len(m.heap) <= MaxAllocs
           /\ heap' = m.heap
           /\ buffer_info' = m.buffer_info
           /\ buffer_format' = m.buffer_format
           /\ status' = IF m.end = "fault" THEN "crashed" ELSE status
           /\ views' = IF m.end = "return" /\ m.ret = 0
                       THEN Append(views, m.view) ELSE views
           /\ refcnt' = IF m.end = "return" /\ m.ret = 0
                        THEN Py_INCREF(refcnt) ELSE refcnt
           /\ op' = Op("array_getbuffer", flags, FALSE, m.end = "return",
                       m.ret, m.err, m.oom)
           /\ UNCHANGED <<arr, descr>>

RemoveAt(s, i) == [k \in 1..(Len(s) - 1) |-> IF k < i THEN s[k] ELSE s[k + 1]]

\* The consumer releases view i.  The type defines no bf_releasebuffer
\* (line 435), so a release only drops the reference view->obj holds.
ReleaseView(i) ==
    /\ status = "alive"
    /\ i \in 1..Len(views)
    /\ views' = RemoveAt(views, i)
    /\ refcnt' = refcnt - 1
    /\ op' = NoOp("release")
    /\ UNCHANGED <<arr, descr, buffer_format, buffer_info, heap, status>>

\* The owner gives the array another shape or other strides.
SetLayout(l) ==
    /\ status = "alive"
    /\ l # Layout(arr)
    /\ arr' = MakeArray(l, descr.elsize, PyArray_ISWRITEABLE(arr))
    /\ op' = NoOp("setlayout")
    /\ UNCHANGED <<descr, buffer_format, buffer_info, heap, views, refcnt, status>>

\* _array_dealloc_buffer_info without the free of cache->shape.
_array_dealloc_buffer_info_leak(h, bi) ==
    IF bi # NULL
    THEN [heap |-> free(h, bi), buffer_info |-> NULL]
    ELSE [heap |-> h, buffer_info |-> bi]

\* _array_dealloc_buffer_info(self): the heap and self->buffer_info after it.
_array_dealloc_buffer_info(h, bi) ==
    IF bi # NULL
    THEN LET cache == h[bi.blk].data
             h1 == IF cache.shape # NULL THEN free(h, cache.shape) ELSE h
         IN  [heap |-> free(h1, bi), buffer_info |-> NULL]
    ELSE [heap |-> h, buffer_info |-> bi]

\* The array is destroyed: permitted when no view holds it, fatal otherwise.
Destroy ==
    /\ status = "alive"
    /\ IF refcnt = 0
       THEN \E r \in {_array_dealloc_buffer_info(heap, buffer_info)} :
                /\ heap' = r.heap
                /\ buffer_info' = r.buffer_info
                /\ status' = "destroyed"
       ELSE /\ status' = "fatal"
            /\ UNCHANGED <<heap, buffer_info>>
    /\ op' = NoOp("destroy")
    /\ UNCHANGED <<arr, descr, buffer_format, views, refcnt>>

\* ------------------------------------------------------- specifications

\* The element types of the arrays of Spec: one whose format goes through
\* _append_str, one that cannot be encoded.
SpecDescrs ==
    {Scalar("NPY_CDOUBLE", "<", 16), SubArray(Scalar("NPY_FLOAT", "=", 4), 2)}

InitWith(descrs, layouts) ==
    /\ descr \in descrs
    /\ arr \in {MakeArray(l, descr.elsize, w) : l \in layouts, w \in BOOLEAN}
    /\ buffer_format = NullStr
    /\ buffer_info = NULL
    /\ heap = <<>>
    /\ views = <<>>
    /\ refcnt = 0
    /\ status = "alive"
    /\ op = NoOp("init")

Init == InitWith(SpecDescrs, Layouts)

Next ==
    \/ \E flags \in Requests : array_getbuffer_null(flags)
    \/ \E flags \in Requests, ub \in AppendStrGarbage,
          oomCache \in BOOLEAN, oomShape \in BOOLEAN :
            array_getbuffer(flags, ub, oomCache, oomShape)
    \/ \E i \in 1..MaxViews : ReleaseView(i)
    \/ \E l \in Layouts : SetLayout(l)
    \/ Destroy

Spec == Init /\ [][Next]_vars

\* ------------------------------------------- the descriptors of SpecFormat

\* The element sizes of the fixed-size types (an LP64 build).
ElSize(t) ==
    CASE t \in {"NPY_BOOL", "NPY_BYTE", "NPY_UBYTE"} -> 1
      [] t \in {"NPY_SHORT", "NPY_USHORT"} -> 2
      [] t \in {"NPY_INT", "NPY_UINT", "NPY_FLOAT"} -> 4
      [] t \in {"NPY_LONG", "NPY_ULONG", "NPY_LONGLONG", "NPY_ULONGLONG",
                "NPY_DOUBLE", "NPY_CFLOAT", "NPY_OBJECT"} -> 8
      [] t \in {"NPY_LONGDOUBLE", "NPY_CDOUBLE"} -> 16
      [] t = "NPY_CLONGDOUBLE" -> 32

\* Types whose descriptors carry no byte order ('|'), and those that do.
UnorderedTypes == {"NPY_BOOL", "NPY_BYTE", "NPY_UBYTE", "NPY_OBJECT"}
OrderedTypes ==
    {"NPY_SHORT", "NPY_USHORT", "NPY_INT", "NPY_UINT", "NPY_LONG", "NPY_ULONG",
     "NPY_LONGLONG", "NPY_ULONGLONG", "NPY_FLOAT", "NPY_DOUBLE", "NPY_LONGDOUBLE",
     "NPY_CFLOAT", "NPY_CDOUBLE", "NPY_CLONGDOUBLE"}
ByteOrders == {"<", ">", "="}
StringSizes == {1, 12, 100}
UnicodeLengths == {1, 3, 25}

Scalars ==
    {Scalar(t, "|", ElSize(t)) : t \in UnorderedTypes}
    \cup {Scalar(t, bo, ElSize(t)) : t \in OrderedTypes, bo \in ByteOrders}
    \cup {Scalar("NPY_STRING", "|", n) : n \in StringSizes}
    \cup {Scalar("NPY_UNICODE", bo, 4 * n) : n \in UnicodeLengths, bo \in ByteOrders}
    \cup {Scalar("NPY_VOID", "|", 8)}

FirstOffsets == {0, 4}
Gaps == {0, 3, 7}

\* The records of one or two fields over the children C, the fields in
\* ascending offset order and not overlapping.
RecordsOver(C) ==
    {Record(<< <<"a">> >>, <<Field(c, o)>>, o + c.elsize)
       : c \in C, o \in FirstOffsets}
    \cup {Record(<< <<"a">>, <<"b">> >>,
                 <<Field(c[1], o), Field(c[2], o + c[1].elsize + g)>>,
                 o + c[1].elsize + g + c[2].elsize)
            : c \in C \X C, o \in FirstOffsets, g \in Gaps}

Leaves ==
    {Scalar("NPY_UBYTE", "|", 1), Scalar("NPY_DOUBLE", "=", 8),
     Scalar("NPY_CFLOAT", "<", 8), SubArray(Scalar("NPY_INT", "=", 4), 2)}

InnerRecords ==
    {Record(<< <<"a">>, <<"b">> >>,
            <<Field(Scalar("NPY_UBYTE", "|", 1), 0),
              Field(Scalar("NPY_DOUBLE", "=", 8), 8)>>, 16),
     Record(<< <<"a">> >>, <<Field(Scalar("NPY_DOUBLE", "=", 8), 0)>>, 8),
     Record(<< <<"a">> >>, <<Field(SubArray(Scalar("NPY_INT", "=", 4), 2), 0)>>, 8)}

BadNames ==
    {Record(<< <<"a", ":", "b">> >>, <<Field(Scalar("NPY_DOUBLE", "=", 8), 0)>>, 8)}

FormatDescrs ==
    Scalars \cup {SubArray(Scalar("NPY_DOUBLE", "=", 8), 3)}
    \cup RecordsOver(Leaves)
    \cup RecordsOver({Scalar("NPY_UBYTE", "|", 1), Scalar("NPY_DOUBLE", "=", 8)}
                     \cup InnerRecords)
    \cup BadNames

\* SpecFormat: arrays of no dimension over every descriptor, exported with a
\* format string.
InitFormat == InitWith(FormatDescrs, {[dimensions |-> <<>>, strides |-> <<>>]})

NextFormat ==
    \/ \E flags \in {PyBUF_FORMAT, PyBUF_RECORDS}, ub \in AppendStrGarbage :
            array_getbuffer(flags, ub, FALSE, FALSE)
    \/ \E i \in 1..MaxViews : ReleaseView(i)

SpecFormat == InitFormat /\ [][NextFormat]_vars

\* ---------------------------------------------------------------- claims

\* The last operation was array_getbuffer with a view record, and returned.
Exported == op.name = "array_getbuffer" /\ ~op.view_null /\ op.returned

\* The view record of the latest successful export, while it is the last
\* operation.
NewView == views[Len(views)]

\* C1: an export that demands write access (PyBUF_WRITABLE) of an array
\* marked read-only fails and returns no view record.
C1_WritableOnReadOnlyFails ==
    (Exported /\ HasFlags(op.flags, PyBUF_WRITABLE) /\ ~PyArray_ISWRITEABLE(arr))
        => op.ret = -1

RECURSIVE HasSubArray(_)
HasSubArray(d) ==
    d.subarray \/ \E k \in 1..Len(d.fields) : HasSubArray(d.fields[k].descr)

\* C2: for a descriptor with a sub-array-shaped field at any depth, an export
\* with a format string fails with the sub-array error, and no format string
\* is ever stored in the descriptor's cache slot.
C2_SubArrayNeverEncoded ==
    HasSubArray(descr)
        => /\ buffer_format = NullStr
           /\ (Exported /\ HasFlags(op.flags, PyBUF_FORMAT))
                  => (op.ret = -1 /\ op.err = ErrSubarray)

\* C3: no outstanding view's shape/strides pointers refer to freed storage
\* (in states the allocator's failures did not produce).
C3_NoViewHoldsFreedSnapshot ==
    (status = "alive" /\ ~op.oom)
        => \A i \in 1..Len(views) :
              /\ views[i].shape # NULL => heap[views[i].shape.blk].live
              /\ views[i].strides # NULL => heap[views[i].strides.blk].live

\* The cache record and whether it holds a snapshot.
Cache == heap[buffer_info.blk].data
HasSnapshot == buffer_info # NULL /\ Cache.shape # NULL

\* C4: for an array of one or more dimensions: of two consecutive successful
\* exports that request shape/strides, the second returns the shape/strides
\* pointers of the first, which point to the cached snapshot, and allocates
\* nothing; a successful export that requests
\* shape/strides when the cached snapshot differs from the array's layout
\* returns a newly allocated snapshot holding the array's extents and strides,
\* and the old snapshot is not the one returned.
C4_Step ==
    (/\ op'.name = "array_getbuffer" /\ op'.returned /\ op'.ret = 0 /\ ~op'.oom
     /\ HasFlags(op'.flags, PyBUF_STRIDES) /\ PyArray_NDIM(arr) > 0)
        => /\ (Exported /\ op.ret = 0 /\ HasFlags(op.flags, PyBUF_STRIDES) /\ ~op.oom)
                  => /\ views'[Len(views')].shape = NewView.shape
                     /\ views'[Len(views')].strides = NewView.strides
                     /\ views'[Len(views')].shape # NULL
                     /\ Len(heap') = Len(heap)
           /\ (HasSnapshot /\ heap[Cache.shape.blk].data # SnapshotData(arr))
                  => /\ views'[Len(views')].shape.blk > Len(heap)
                     /\ views'[Len(views')].shape # Cache.shape
                     /\ heap'[views'[Len(views')].shape.blk].data = SnapshotData(arr)

C4_SnapshotReusedOrReplaced == [][C4_Step]_vars

AllFreed(h) == \A b \in 1..Len(h) : ~h[b].live

\* C5: a release reduces the outstanding-view count by exactly one; the
\* array is destroyed only when the count is zero, and then its cache record
\* and its shape/strides snapshot are both freed; an attempt to destroy it
\* while the count is not zero is fatal and frees nothing; nothing else frees
\* the cache record.
C5_Step ==
    /\ op'.name = "release" => refcnt' = refcnt - 1
    /\ status' = "destroyed"
           => /\ refcnt = 0 /\ views = <<>>
              /\ AllFreed(heap') /\ buffer_info' = NULL
    /\ (op'.name = "destroy" /\ refcnt # 0)
           => status' = "fatal" /\ heap' = heap /\ buffer_info' = buffer_info
    /\ (buffer_info # NULL /\ ~heap'[buffer_info.blk].live) => status' = "destroyed"

C6_Step ==
    (op'.name = "array_getbuffer" /\ op'.oom)
        => /\ op'.returned /\ op'.ret = -1
           /\ buffer_info' = buffer_info
           /\ heap' = heap

C6_AllocationFailureLeavesCache == [][C6_Step]_vars

\* The padding the format string carries before each field, in the order of
\* the fields in the string: a field starts after "{" or after the ':' that
\* closes the name of the field before it.
RECURSIVE XRun(_, _)
XRun(s, j) == IF j <= Len(s) /\ s[j] = "x" THEN 1 + XRun(s, j + 1) ELSE 0

RECURSIVE DecodedPads(_, _, _)
DecodedPads(s, i, inName) ==
    IF i > Len(s) THEN <<>>
    ELSE IF (s[i] = ":" /\ inName) \/ (s[i] = "{" /\ ~inName)
    THEN IF i + 1 > Len(s) \/ s[i + 1] \in {"}", NUL}
         THEN DecodedPads(s, i + 1, FALSE)
         ELSE <<XRun(s, i + 1)>> \o DecodedPads(s, i + 1 + XRun(s, i + 1), FALSE)
    ELSE IF s[i] = ":" THEN DecodedPads(s, i + 1, TRUE)
    ELSE DecodedPads(s, i + 1, inName)

\* The padding the layout asks for: each field's offset minus the end of the
\* field before it in the same record, the fields of a nested record after
\* the field that holds it.
RECURSIVE ExpectedPads(_)
RECURSIVE ExpectedPadsFrom(_, _)
ExpectedPadsFrom(d, k) ==
    IF k > Len(d.fields) THEN <<>>
    ELSE <<d.fields[k].offset
             - (IF k = 1 THEN 0
                ELSE d.fields[k - 1].offset + d.fields[k - 1].descr.elsize)>>
         \o ExpectedPads(d.fields[k].descr) \o ExpectedPadsFrom(d, k + 1)
ExpectedPads(d) == ExpectedPadsFrom(d, 1)

RECURSIVE FieldsAscending(_)
FieldsAscending(d) ==
    \A k \in 1..Len(d.fields) :
        /\ d.fields[k].offset >=
               (IF k = 1 THEN 0
                ELSE d.fields[k - 1].offset + d.fields[k - 1].descr.elsize)
        /\ FieldsAscending(d.fields[k].descr)

\* C7: in the format string of a record whose fields are in ascending,
\* non-overlapping offset order, the number of 'x' before each field, nested
\* fields included, is the field's offset minus the end of the field before it
\* in the same record.
C7_PaddingMatchesOffsets ==
    (PyDataType_HASFIELDS(descr) /\ FieldsAscending(descr) /\ buffer_format # NullStr)
        => DecodedPads(buffer_format, 1, FALSE) = ExpectedPads(descr)

\* The type codes of the format grammar.
TableTypes ==
    ((UnorderedTypes \cup OrderedTypes) \ {"NPY_BOOL"}) \cup {"NPY_STRING", "NPY_UNICODE"}

TableCode(d) ==
    CASE d.type_num = "NPY_BYTE" -> <<"b">>
      [] d.type_num = "NPY_UBYTE" -> <<"B">>
      [] d.type_num = "NPY_SHORT" -> <<"h">>
      [] d.type_num = "NPY_USHORT" -> <<"H">>
      [] d.type_num = "NPY_INT" -> <<"i">>
      [] d.type_num = "NPY_UINT" -> <<"I">>
      [] d.type_num = "NPY_LONG" -> <<"l">>
      [] d.type_num = "NPY_ULONG" -> <<"L">>
      [] d.type_num = "NPY_LONGLONG" -> <<"q">>
      [] d.type_num = "NPY_ULONGLONG" -> <<"Q">>
      [] d.type_num = "NPY_FLOAT" -> <<"f">>
      [] d.type_num = "NPY_DOUBLE" -> <<"d">>
      [] d.type_num = "NPY_LONGDOUBLE" -> <<"g">>
      [] d.type_num = "NPY_CFLOAT" -> <<"Z", "f">>
      [] d.type_num = "NPY_CDOUBLE" -> <<"Z", "d">>
      [] d.type_num = "NPY_CLONGDOUBLE" -> <<"Z", "g">>
      [] d.type_num = "NPY_OBJECT" -> <<"O">>
      [] d.type_num = "NPY_STRING" -> Decimal(d.elsize) \o <<"s">>
      [] d.type_num = "NPY_UNICODE" -> Decimal(d.elsize \div 4) \o <<"w">>

\* C8: for a descriptor that is no record and has a type of the table, an
\* export with a format string succeeds, and the string is the byte-order
\* character, present exactly when the descriptor declares one of '<', '>',
\* '=', followed by exactly the type code of the table.
C8_ScalarFormatIsTableCode ==
    (/\ Exported /\ HasFlags(op.flags, PyBUF_FORMAT)
     /\ ~PyDataType_HASFIELDS(descr) /\ ~descr.subarray
     /\ descr.type_num \in TableTypes)
        => /\ op.ret = 0
           /\ buffer_format =
                  (IF descr.byteorder \in ByteOrders THEN <<descr.byteorder>> ELSE <<>>)
                  \o TableCode(descr) \o <<NUL>>

\* C9: after a successful export that requests shape/strides (PyBUF_STRIDES,
\* with or without PyBUF_WRITABLE) the view's dimension count, shape and
\* strides are the array's; a view of an array of one or more dimensions
\* reports them absent (0, NULL, NULL) only when they were not requested and
\* the array is one segment.
C9_StridedViewHasLayout ==
    (Exported /\ op.ret = 0 /\ ~op.oom)
        => /\ HasFlags(op.flags, PyBUF_STRIDES)
                  => /\ NewView.ndim = PyArray_NDIM(arr)
                     /\ \A k \in 0..(PyArray_NDIM(arr) - 1) :
                            /\ Deref(heap, NewView.shape, k) = PyArray_DIMS(arr)[k + 1]
                            /\ Deref(heap, NewView.strides, k)
                                   = PyArray_STRIDES(arr)[k + 1]
           /\ (/\ PyArray_NDIM(arr) > 0
               /\ NewView.ndim = 0 /\ NewView.shape = NULL /\ NewView.strides = NULL)
                  => ~HasFlags(op.flags, PyBUF_STRIDES) /\ PyArray_ISONESEGMENT(arr)

\* C10: an export that returns success adds exactly one to the count of
\* references the views hold, an export that ends in any other way leaves it
\* unchanged, and so the count is the number of exported, unreleased views.
C10_Step ==
    /\ op'.name = "array_getbuffer"
           => refcnt' = IF op'.returned /\ op'.ret = 0 THEN refcnt + 1 ELSE refcnt
    /\ refcnt' = Len(views')

C10_CountIsOutstandingViews == [][C10_Step]_vars

\* C10 witness: an export failed on the format string while a view of an
\* earlier export was outstanding, and the count is still one.
C10_Witness ==
    /\ Exported /\ op.ret = -1 /\ op.err = ErrSubarray
    /\ refcnt = 1 /\ Len(views) = 1

=============================================================================
